---- MODULE Spec2Model ----
(***************************************************************************)
(* Model of CloudUtil: cloud_manager.py (put / get / upload / download     *)
(* dispatched by host string) over aws_s3_manager.S3Manager,               *)
(* render_file_manager.RenderFileManager and the local filesystem.         *)
(*                                                                         *)
(* Text is a sequence of Unicode code points, file and object contents are *)
(* sequences of bytes, Python values are tagged records.                   *)
(***************************************************************************)
EXTENDS Integers, Sequences, FiniteSets, TLC

(***************************************************************************)
(* Python values                                                           *)
(***************************************************************************)
PyNone == [t |-> "none"]
PyBool(b) == [t |-> "bool", v |-> b]
\* an int of up to nine digits; one of more digits is
\* [t |-> "bigint", v |-> its decimal text], "-" and the digits
PyInt(n) == [t |-> "int", v |-> n]
\* a float is named by the text json.dumps writes for it: float.__repr__,
\* or NaN, Infinity, -Infinity
PyFloat(repr) == [t |-> "float", v |-> repr]
PyStr(s) == [t |-> "str", v |-> s]
PyList(items) == [t |-> "list", v |-> items]
\* a dict is its items in insertion order
PyDict(items) == [t |-> "dict", v |-> items]
Item(key, val) == [key |-> key, val |-> val]
\* an object json cannot serialize and that is no str (e.g. a set)
PyObject == [t |-> "object"]

IsStr(x) == x.t = "str"

\* ASCII text of a literal, as code points
Lit(name) ==
    CASE name = "null" -> <<110, 117, 108, 108>>
      [] name = "true" -> <<116, 114, 117, 101>>
      [] name = "false" -> <<102, 97, 108, 115, 101>>
      [] name = "NaN" -> <<78, 97, 78>>
      [] name = "Infinity" -> <<73, 110, 102, 105, 110, 105, 116, 121>>
      [] name = "-Infinity" -> <<45, 73, 110, 102, 105, 110, 105, 116, 121>>

(***************************************************************************)
(* json.dumps (default arguments: ensure_ascii=True, separators ", " ": ") *)
(***************************************************************************)
HexDigit(d) == IF d < 10 THEN 48 + d ELSE 87 + d

\* \uXXXX, four lowercase hex digits
UEscape(c) ==
    <<92, 117, HexDigit((c \div 4096) % 16), HexDigit((c \div 256) % 16),
      HexDigit((c \div 16) % 16), HexDigit(c % 16)>>

EscapeChar(c) ==
    CASE c = 34 -> <<92, 34>>
      [] c = 92 -> <<92, 92>>
      [] c = 10 -> <<92, 110>>
      [] c = 13 -> <<92, 114>>
      [] c = 9 -> <<92, 116>>
      [] c = 8 -> <<92, 98>>
      [] c = 12 -> <<92, 102>>
      [] c >= 32 /\ c <= 126 -> <<c>>
      \* above U+FFFF: a UTF-16 surrogate pair, two escapes
      [] c > 65535 -> UEscape(55296 + ((c - 65536) \div 1024))
                      \o UEscape(56320 + ((c - 65536) % 1024))
      [] OTHER -> UEscape(c)

RECURSIVE EscapeText(_)
EscapeText(s) == IF s = <<>> THEN <<>> ELSE EscapeChar(Head(s)) \o EscapeText(Tail(s))

DumpsStr(s) == <<34>> \o EscapeText(s) \o <<34>>

RECURSIVE Digits(_)
Digits(n) == IF n < 10 THEN <<48 + n>> ELSE Digits(n \div 10) \o <<48 + (n % 10)>>

\* sys.get_int_max_str_digits(): int <-> str conversion of more digits than
\* this raises ValueError (CPython 3.11 and later)
MaxStrDigits == 4300

\* the deepest nesting of lists and dicts json.dumps and json.loads take
\* before they raise RecursionError: sys.getrecursionlimit() is 1000, a call
\* of put or get from module level has six frames on the stack when the
\* encoder or the scanner starts (the module, put, _write_to_*, json.dumps,
\* encode, iterencode; the module, get, _read_from_*, json.loads, decode,
\* raw_decode), every container takes one more, and the last one is not usable
MaxNesting == 1000 - 6 - 1

\* the first exception among the elements' ones, "" when there is none
FirstError(errs) ==
    IF \A i \in 1..Len(errs) : errs[i] = "" THEN ""
    ELSE errs[CHOOSE i \in 1..Len(errs) :
                  errs[i] # "" /\ \A j \in 1..(i - 1) : errs[j] = ""]

\* the exception json.dumps(x) raises, "" when it returns; depth is the
\* number of lists and dicts around x plus the levels the caller has used.
\* The encoder goes through the value in order and stops at the first of:
\* a container nested too deep (RecursionError), an int of more than
\* MaxStrDigits digits (ValueError), an object json cannot serialize
\* (TypeError, from JSONEncoder.default, whose call needs two levels).
RECURSIVE DumpsError(_, _)
DumpsError(x, depth) ==
    CASE x.t = "object" ->
            IF depth + 2 > MaxNesting THEN "RecursionError" ELSE "TypeError"
      [] x.t = "bigint" ->
            IF Len(x.v) - (IF x.v[1] = 45 THEN 1 ELSE 0) > MaxStrDigits
            THEN "ValueError" ELSE ""
      [] x.t = "list" ->
            IF depth + 1 > MaxNesting THEN "RecursionError"
            ELSE FirstError([i \in 1..Len(x.v) |-> DumpsError(x.v[i], depth + 1)])
      [] x.t = "dict" ->
            IF depth + 1 > MaxNesting THEN "RecursionError"
            ELSE FirstError([i \in 1..Len(x.v) |-> DumpsError(x.v[i].val, depth + 1)])
      [] OTHER -> ""

RECURSIVE JsonDumps(_)
RECURSIVE DumpsItems(_, _)
DumpsItems(items, isDict) ==
    IF items = <<>> THEN <<>>
    ELSE LET h == Head(items)
             one == IF isDict THEN DumpsStr(h.key) \o <<58, 32>> \o JsonDumps(h.val)
                    ELSE JsonDumps(h)
         IN  IF Len(items) = 1 THEN one
             ELSE one \o <<44, 32>> \o DumpsItems(Tail(items), isDict)

JsonDumps(x) ==
    CASE x.t = "none" -> Lit("null")
      [] x.t = "bool" -> IF x.v THEN Lit("true") ELSE Lit("false")
      [] x.t = "int" -> IF x.v < 0 THEN <<45>> \o Digits(0 - x.v) ELSE Digits(x.v)
      [] x.t = "bigint" -> x.v
      \* float.__repr__, NaN, Infinity, -Infinity: the text that names the float
      [] x.t = "float" -> x.v
      [] x.t = "str" -> DumpsStr(x.v)
      [] x.t = "list" -> <<91>> \o DumpsItems(x.v, FALSE) \o <<93>>
      [] x.t = "dict" -> <<123>> \o DumpsItems(x.v, TRUE) \o <<125>>

(***************************************************************************)
(* json.loads (default arguments: strict=True)                             *)
(* A parse result is [ok, val, pos, exc]: pos is the index after the       *)
(* value, exc the exception that ended the parse ("" when ok).             *)
(***************************************************************************)
Throw(exc) == [ok |-> FALSE, val |-> PyNone, pos |-> 0, exc |-> exc]
Ok(val, pos) == [ok |-> TRUE, val |-> val, pos |-> pos, exc |-> ""]

\* a syntax error found inside a string, an array or an object, depth arrays
\* and objects being open: the scanner builds the JSONDecodeError where it
\* stands, which takes three levels (the call of the class, its __init__,
\* ValueError.__init__), and raises RecursionError when they are not there
FailAt(depth) ==
    IF depth + 3 > MaxNesting THEN Throw("RecursionError") ELSE Throw("JSONDecodeError")

At(s, i) == IF i >= 1 /\ i <= Len(s) THEN s[i] ELSE -1

IsWs(c) == c \in {32, 9, 10, 13}
IsDigit(c) == c >= 48 /\ c <= 57

RECURSIVE SkipWs(_, _)
SkipWs(s, i) == IF IsWs(At(s, i)) THEN SkipWs(s, i + 1) ELSE i

StartsWith(s, i, lit) ==
    /\ i + Len(lit) - 1 <= Len(s)
    /\ \A j \in 1..Len(lit) : s[i + j - 1] = lit[j]

HexVal(c) ==
    CASE c >= 48 /\ c <= 57 -> c - 48
      [] c >= 97 /\ c <= 102 -> c - 87
      [] c >= 65 /\ c <= 70 -> c - 55
      [] OTHER -> -1

\* the value of the \uXXXX escape at j when it is a low surrogate, else -1
LowSurrogate(s, j) ==
    IF At(s, j) = 92 /\ At(s, j + 1) = 117
       /\ HexVal(At(s, j + 2)) = 13 /\ HexVal(At(s, j + 3)) >= 12
       /\ HexVal(At(s, j + 4)) >= 0 /\ HexVal(At(s, j + 5)) >= 0
    THEN 56320 + (HexVal(At(s, j + 3)) - 12) * 256
         + HexVal(At(s, j + 4)) * 16 + HexVal(At(s, j + 5))
    ELSE -1

RECURSIVE ScanString(_, _, _, _)

\* after the escape \uXXXX at i with value uni: a high surrogate followed by
\* an escaped low surrogate is one code point and both escapes are consumed
ScanEscape(s, i, acc, uni, low, depth) ==
    IF uni >= 55296 /\ uni <= 56319 /\ low >= 0
    THEN ScanString(s, i + 12,
             Append(acc, 65536 + (uni - 55296) * 1024 + (low - 56320)), depth)
    ELSE ScanString(s, i + 6, Append(acc, uni), depth)

\* the text of a string whose opening quote is at i - 1, depth arrays and
\* objects being open
ScanString(s, i, acc, depth) ==
    LET c == At(s, i) IN
    CASE c = -1 -> FailAt(depth)
      [] c = 34 -> Ok(PyStr(acc), i + 1)
      [] c = 92 ->
            LET e == At(s, i + 1) IN
            CASE e = 34 -> ScanString(s, i + 2, Append(acc, 34), depth)
              [] e = 92 -> ScanString(s, i + 2, Append(acc, 92), depth)
              [] e = 47 -> ScanString(s, i + 2, Append(acc, 47), depth)
              [] e = 98 -> ScanString(s, i + 2, Append(acc, 8), depth)
              [] e = 102 -> ScanString(s, i + 2, Append(acc, 12), depth)
              [] e = 110 -> ScanString(s, i + 2, Append(acc, 10), depth)
              [] e = 114 -> ScanString(s, i + 2, Append(acc, 13), depth)
              [] e = 116 -> ScanString(s, i + 2, Append(acc, 9), depth)
              [] e = 117 ->
                    LET h1 == HexVal(At(s, i + 2))
                        h2 == HexVal(At(s, i + 3))
                        h3 == HexVal(At(s, i + 4))
                        h4 == HexVal(At(s, i + 5))
                    IN  IF h1 < 0 \/ h2 < 0 \/ h3 < 0 \/ h4 < 0 THEN FailAt(depth)
                        ELSE ScanEscape(s, i, acc,
                                 h1 * 4096 + h2 * 256 + h3 * 16 + h4,
                                 LowSurrogate(s, i + 6), depth)
              [] OTHER -> FailAt(depth)
      [] c < 32 -> FailAt(depth)
      [] OTHER -> ScanString(s, i + 1, Append(acc, c), depth)

(***************************************************************************)
(* float(text) and float.__repr__, as json.loads and json.dumps use them:  *)
(* a number with a fraction or an exponent becomes the IEEE 754 double     *)
(* nearest to it (ties to even), and a double is written with the fewest   *)
(* digits that read back as the same double.                               *)
(* A natural number of any size is the sequence of its decimal digits,     *)
(* least significant first, without high zeros; <<>> is 0.                 *)
(***************************************************************************)
BigDigit(a, i) == IF i >= 1 /\ i <= Len(a) THEN a[i] ELSE 0

\* a without the d zeros that stand at its high end
BigTrim(a) ==
    SubSeq(a, 1, Len(a) - CHOOSE d \in 0..Len(a) :
                              /\ d = Len(a) \/ a[Len(a) - d] # 0
                              /\ \A j \in 1..d : a[Len(a) + 1 - j] = 0)

\* the number written in the decimal text t (digits as code points)
BigFromText(t) == BigTrim([i \in 1..Len(t) |-> t[Len(t) + 1 - i] - 48])

\* a \div 10^z for z >= 0, a * 10^(-z) for z < 0
BigShift(a, z) ==
    IF z >= Len(a) \/ a = <<>> THEN <<>>
    ELSE IF z >= 0 THEN SubSeq(a, z + 1, Len(a))
    ELSE [i \in 1..(0 - z) |-> 0] \o a

\* -1, 0, 1 as a < b, a = b, a > b: the highest digit that differs decides
BigCmp(a, b) ==
    IF Len(a) < Len(b) THEN -1
    ELSE IF Len(a) > Len(b) THEN 1
    ELSE IF \A i \in 1..Len(a) : a[i] = b[i] THEN 0
    ELSE IF \E i \in 1..Len(a) :
                a[i] < b[i] /\ \A j \in (i + 1)..Len(a) : a[j] = b[j]
    THEN -1
    ELSE 1

\* a carry enters digit i: a digit sum of 10 or more below it, and sums of 9
\* all the way up from there
BigCarries(a, b, i) ==
    \E d \in 1..(i - 1) :
        /\ BigDigit(a, i - d) + BigDigit(b, i - d) >= 10
        /\ \A e \in 1..(d - 1) : BigDigit(a, i - e) + BigDigit(b, i - e) = 9

BigAdd(a, b) ==
    BigTrim([i \in 1..((IF Len(a) > Len(b) THEN Len(a) ELSE Len(b)) + 1) |->
                (BigDigit(a, i) + BigDigit(b, i)
                 + (IF BigCarries(a, b, i) THEN 1 ELSE 0)) % 10])

BigBorrows(a, b, i) ==
    \E d \in 1..(i - 1) :
        /\ BigDigit(a, i - d) < BigDigit(b, i - d)
        /\ \A e \in 1..(d - 1) : BigDigit(a, i - e) = BigDigit(b, i - e)

\* a - b, for a >= b
BigSub(a, b) ==
    BigTrim([i \in 1..Len(a) |->
                (BigDigit(a, i) - BigDigit(b, i)
                 - (IF BigBorrows(a, b, i) THEN 1 ELSE 0) + 10) % 10])

\* a * 2: a digit of 5 or more carries 1 into the next, whatever comes in
BigDouble(a) ==
    BigTrim([i \in 1..(Len(a) + 1) |->
                ((2 * BigDigit(a, i)) % 10)
                + (IF BigDigit(a, i - 1) >= 5 THEN 1 ELSE 0)])

\* a * 5: an odd digit leaves 5, and half the digit goes into the next
BigFive(a) ==
    BigTrim([i \in 1..(Len(a) + 1) |->
                5 * (BigDigit(a, i) % 2) + BigDigit(a, i - 1) \div 2])

\* a * 2^n
RECURSIVE BigTimes2(_, _)
BigTimes2(a, n) ==
    IF a = <<>> \/ n = 0 THEN a
    ELSE IF n = 1 THEN BigDouble(a)
    ELSE BigTimes2(BigTimes2(a, n \div 2), n - n \div 2)

\* a * 5^n
RECURSIVE BigTimes5(_, _)
BigTimes5(a, n) ==
    IF a = <<>> \/ n = 0 THEN a
    ELSE IF n = 1 THEN BigFive(a)
    ELSE BigTimes5(BigTimes5(a, n \div 2), n - n \div 2)

\* a double is zero, infinite or m * 2^k with m < 2^53, k in -1074..971
FloatZero == [class |-> "zero", m |-> <<>>, k |-> 0]
FloatInf == [class |-> "inf", m |-> <<>>, k |-> 0]

TwoTo52 == BigTimes2(<<1>>, 52)

\* the rounded quotient: 2^53 is 2^52 at the next exponent, and an exponent
\* above the largest is overflow
FloatNormal(m, k) ==
    IF m = <<>> THEN FloatZero
    ELSE IF k > 971 \/ (m = BigDouble(TwoTo52) /\ k + 1 > 971) THEN FloatInf
    ELSE IF m = BigDouble(TwoTo52) THEN [class |-> "finite", m |-> TwoTo52, k |-> k + 1]
    ELSE [class |-> "finite", m |-> m, k |-> k]

\* y / 10^z is value / 2^k: the z low digits of y are the remainder, more
\* than half rounds up and half rounds to even
FloatRounded(y, z, k) ==
    FloatNormal(IF /\ z >= 1
                   /\ \/ BigDigit(y, z) > 5
                      \/ /\ BigDigit(y, z) = 5
                         /\ \/ \E i \in 1..(z - 1) : y[i] # 0
                            \/ BigDigit(y, z + 1) % 2 = 1
                THEN BigAdd(BigShift(y, z), <<1>>)
                ELSE BigShift(y, z), k)

\* the quotient q fits exponent k: 2^52 <= q < 2^53, or less at the lowest
\* exponent (subnormal)
FloatFits(q, k) ==
    BigCmp(q, BigDouble(TwoTo52)) < 0 /\ (BigCmp(q, TwoTo52) >= 0 \/ k = -1074)

\* c0 / 10^z is value / 2^hi: the exponent is one of hi - w .. hi
FloatPick(c0, z, hi, w) ==
    FloatRounded(BigTimes2(c0, CHOOSE j \in 0..w :
                                   FloatFits(BigShift(BigTimes2(c0, j), z), hi - j)),
                 z,
                 hi - (CHOOSE j \in 0..w :
                           FloatFits(BigShift(BigTimes2(c0, j), z), hi - j)))

FloatWindow(coef, e10, hi, lo) ==
    FloatPick(IF hi < 0 THEN BigTimes2(coef, 0 - hi) ELSE BigTimes5(coef, hi),
              (IF hi > 0 THEN hi ELSE 0) - e10, hi, hi - lo)

\* the double nearest to coef * 10^e10; from 1e309 on every number is
\* infinite, below 1e-324 every number is zero.  A number of d digits before
\* the point lies in 10^(d-1) .. 10^d, and 3.321 < log2(10) < 3.322 bounds
\* its binary exponent, which is not below -1074
FloatOf(coef, e10) ==
    IF coef = <<>> THEN FloatZero
    ELSE IF Len(coef) - 1 + e10 > 308 THEN FloatInf
    ELSE IF Len(coef) - 1 + e10 < -324 THEN FloatZero
    ELSE FloatWindow(coef, e10,
                     IF ((Len(coef) + e10) * 3322) \div 1000 - 51 < -1074 THEN -1074
                     ELSE ((Len(coef) + e10) * 3322) \div 1000 - 51,
                     IF ((Len(coef) + e10 - 1) * 3321) \div 1000 - 53 < -1074 THEN -1074
                     ELSE ((Len(coef) + e10 - 1) * 3321) \div 1000 - 53)

\* a * 2^(k - 2) as a whole number of units: of 1 for k >= 2, else of 10^(k - 2)
FloatScaled(a, k) == IF k >= 2 THEN BigTimes2(a, k - 2) ELSE BigTimes5(a, 2 - k)

\* the n leading digits of x written with t digits, and whether the rest is 0
FloatLead(x, t, n) == BigTrim([i \in 1..n |-> BigDigit(x, t - n + i)])
FloatRestZero(x, t, n) == \A i \in 1..(t - n) : BigDigit(x, i) = 0

\* the n leading digits of v are not below the low end l: above its leading
\* digits, or on the end when the end belongs to the range
FloatOkBelow(l, v, t, incl, n) ==
    LET c == BigCmp(FloatLead(v, t, n), FloatLead(l, t, n))
    IN  c > 0 \/ (c = 0 /\ incl /\ FloatRestZero(l, t, n))

\* the next number of n digits is not above the high end h
FloatOkAbove(v, h, t, incl, n) ==
    LET c == BigCmp(FloatLead(h, t, n), BigAdd(FloatLead(v, t, n), <<1>>))
    IN  c > 0 \/ (c = 0 /\ (incl \/ ~FloatRestZero(h, t, n)))

\* v is nearer to its n leading digits than to the next number of n digits
\* (a tie goes to the even one)
FloatNearerBelow(v, t, n) ==
    \/ n = t
    \/ BigDigit(v, t - n) < 5
    \/ /\ BigDigit(v, t - n) = 5
       /\ \A i \in 1..(t - n - 1) : BigDigit(v, i) = 0
       /\ BigDigit(v, t - n + 1) % 2 = 0

\* the digits c standing n digits into a number of t digits whose unit is
\* 10^e, and the power of ten of the first digit of c
FloatChosen(l, v, h, incl, e, n) ==
    LET c == IF /\ FloatOkBelow(l, v, Len(h), incl, n)
                /\ \/ ~FloatOkAbove(v, h, Len(h), incl, n)
                   \/ FloatNearerBelow(v, Len(h), n)
             THEN FloatLead(v, Len(h), n)
             ELSE BigAdd(FloatLead(v, Len(h), n), <<1>>)
    IN  [c |-> c, e |-> Len(c) - 1 + Len(h) - n + e]

\* the numbers from l to h round to the double v (the ends too when incl):
\* the one with the fewest digits, and of those the one nearest to v
FloatInterval(l, v, h, incl, e) ==
    FloatChosen(l, v, h, incl, e,
        CHOOSE n \in 1..Len(h) :
            /\ FloatOkBelow(l, v, Len(h), incl, n)
               \/ FloatOkAbove(v, h, Len(h), incl, n)
            /\ \A j \in 1..(n - 1) :
                  /\ ~FloatOkBelow(l, v, Len(h), incl, j)
                  /\ ~FloatOkAbove(v, h, Len(h), incl, j))

\* in units of 2^(k - 2) the double is 4m, the next doubles are 4 away (2
\* below a power of two), and the numbers up to halfway round to it, halfway
\* itself when m is even
FloatShortest(m, k) ==
    FloatInterval(FloatScaled(BigSub(BigTimes2(m, 2),
                                     IF m = TwoTo52 /\ k > -1074 THEN <<1>> ELSE <<2>>), k),
                  FloatScaled(BigTimes2(m, 2), k),
                  FloatScaled(BigAdd(BigTimes2(m, 2), <<2>>), k),
                  BigDigit(m, 1) % 2 = 0, IF k >= 2 THEN 0 ELSE k - 2)

\* float.__repr__ of a finite nonzero double from its shortest digits ds
\* (code points) and the exponent e of the first digit
FloatFormat(ds, e) ==
    IF e < -4 \/ e >= 16
    THEN <<ds[1]>> \o (IF Len(ds) > 1 THEN <<46>> \o Tail(ds) ELSE <<>>)
         \o <<101, IF e < 0 THEN 45 ELSE 43>>
         \o (IF e > -10 /\ e < 10 THEN <<48>> ELSE <<>>)
         \o Digits(IF e < 0 THEN 0 - e ELSE e)
    ELSE IF e >= Len(ds) - 1
    THEN ds \o [i \in 1..(e - Len(ds) + 1) |-> 48] \o <<46, 48>>
    ELSE IF e >= 0
    THEN SubSeq(ds, 1, e + 1) \o <<46>> \o SubSeq(ds, e + 2, Len(ds))
    ELSE <<48, 46>> \o [i \in 1..(0 - e - 1) |-> 48] \o ds

\* the text json.dumps writes for the double x: the shortest digits, most
\* significant first, as code points
FloatRepr(x) ==
    CASE x.class = "zero" -> <<48, 46, 48>>
      [] x.class = "inf" -> Lit("Infinity")
      [] OTHER -> LET r == FloatShortest(x.m, x.k)
                  IN  FloatFormat([i \in 1..Len(r.c) |-> 48 + r.c[Len(r.c) + 1 - i]], r.e)

\* a as an integer when it is at most cap, else cap (cap >= 0 an integer)
BigSmall(a, cap) ==
    IF BigCmp(a, BigTrim([i \in 1..10 |-> (cap \div (10 ^ (i - 1))) % 10])) > 0 THEN cap
    ELSE BigDigit(a, 1) + 10 * BigDigit(a, 2) + 100 * BigDigit(a, 3)
         + 1000 * BigDigit(a, 4) + 10000 * BigDigit(a, 5) + 100000 * BigDigit(a, 6)
         + 1000000 * BigDigit(a, 7) + 10000000 * BigDigit(a, 8)
         + 100000000 * BigDigit(a, 9) + 1000000000 * BigDigit(a, 10)

\* the index after the digits that start at i
DigitsEnd(s, i) ==
    CHOOSE j \in i..(Len(s) + 1) :
        ~IsDigit(At(s, j)) /\ \A k \in i..(j - 1) : IsDigit(s[k])

RECURSIVE DigitsValue(_, _, _)
DigitsValue(s, i, j) ==
    IF j <= i THEN 0 ELSE DigitsValue(s, i, j - 1) * 10 + (s[j - 1] - 48)

\* NUMBER_RE = (-?(?:0|[1-9]\d*))(\.\d+)?([eE][-+]?\d+)?
\* i: start of the match, d0: first digit, intEnd / fracEnd / expEnd: index
\* after the integer part, the fraction, the exponent
\* where the digits of the exponent starting at fracEnd begin
ExpDigits(s, fracEnd) == IF At(s, fracEnd + 1) \in {43, 45} THEN fracEnd + 2 ELSE fracEnd + 1

\* the exponent part of the match, 0 without one.  The digits of the
\* coefficient move the number by less than Len(s) powers of ten, so an
\* exponent beyond Len(s) + 400 gives infinity or zero as that one does
NumExponent(s, fracEnd, expEnd) ==
    IF expEnd = fracEnd THEN 0
    ELSE IF At(s, fracEnd + 1) = 45
    THEN 0 - BigSmall(BigFromText(SubSeq(s, fracEnd + 2, expEnd - 1)), Len(s) + 400)
    ELSE BigSmall(BigFromText(SubSeq(s, ExpDigits(s, fracEnd), expEnd - 1)),
                  Len(s) + 400)

\* float(integer + fraction + exponent): the digits of the integer part and
\* of the fraction are the coefficient
NumFloat(s, d0, intEnd, fracEnd, expEnd) ==
    FloatOf(BigFromText(SubSeq(s, d0, intEnd - 1) \o SubSeq(s, intEnd + 1, fracEnd - 1)),
            NumExponent(s, fracEnd, expEnd)
            - (IF fracEnd > intEnd THEN fracEnd - intEnd - 1 ELSE 0))

\* an integer is int(text), which refuses more than MaxStrDigits digits
\* (an int of ten digits or more is kept as its text);
\* a number with a fraction or an exponent is float(text)
NumEnd(s, i, d0, intEnd, fracEnd, expEnd) ==
    IF expEnd = intEnd /\ intEnd - d0 > MaxStrDigits THEN Throw("ValueError")
    ELSE IF expEnd = intEnd /\ intEnd - d0 > 9
    THEN Ok([t |-> "bigint", v |-> SubSeq(s, i, intEnd - 1)], intEnd)
    ELSE IF expEnd = intEnd
    THEN Ok(PyInt(IF d0 > i THEN 0 - DigitsValue(s, d0, intEnd)
                  ELSE DigitsValue(s, d0, intEnd)), intEnd)
    ELSE Ok(PyFloat((IF d0 > i THEN <<45>> ELSE <<>>)
                    \o FloatRepr(NumFloat(s, d0, intEnd, fracEnd, expEnd))), expEnd)

NumExp(s, i, d0, intEnd, fracEnd) ==
    NumEnd(s, i, d0, intEnd, fracEnd,
           IF At(s, fracEnd) \in {101, 69} /\ IsDigit(At(s, ExpDigits(s, fracEnd)))
           THEN DigitsEnd(s, ExpDigits(s, fracEnd)) ELSE fracEnd)

\* no number, and so no value, at i: the scanner raises StopIteration and
\* the decoder, at the top, JSONDecodeError ("Expecting value")
NumFrac(s, i, d0, intEnd) ==
    IF intEnd = d0 THEN Throw("JSONDecodeError")
    ELSE NumExp(s, i, d0, intEnd,
                IF At(s, intEnd) = 46 /\ IsDigit(At(s, intEnd + 1))
                THEN DigitsEnd(s, intEnd + 1) ELSE intEnd)

NumInt(s, i, d0) ==
    NumFrac(s, i, d0, IF At(s, d0) = 48 THEN d0 + 1 ELSE DigitsEnd(s, d0))

ScanNumber(s, i) == NumInt(s, i, IF At(s, i) = 45 THEN i + 1 ELSE i)

\* dict construction from parsed pairs: a repeated key keeps its first
\* position and takes the last value
RECURSIVE SetItem(_, _, _)
SetItem(items, k, v) ==
    IF items = <<>> THEN <<Item(k, v)>>
    ELSE IF Head(items).key = k THEN <<Item(k, v)>> \o Tail(items)
    ELSE <<Head(items)>> \o SetItem(Tail(items), k, v)

\* depth is the number of arrays and objects that are open
RECURSIVE ParseValue(_, _, _)
RECURSIVE ParseElems(_, _, _, _)
RECURSIVE ParseMembers(_, _, _, _)

\* after an element: "]" ends the array, "," starts the next element
ElemsSep(s, j, items, depth) ==
    CASE At(s, j) = 93 -> Ok(PyList(items), j + 1)
      [] At(s, j) = 44 -> ParseElems(s, SkipWs(s, j + 1), items, depth)
      [] OTHER -> FailAt(depth)

\* an element that ended the parse ends the array's parse the same way
ElemsNext(s, acc, r, depth) ==
    IF ~r.ok THEN r ELSE ElemsSep(s, SkipWs(s, r.pos), Append(acc, r.val), depth)

\* i is at the first character of an element
ParseElems(s, i, acc, depth) == ElemsNext(s, acc, ParseValue(s, i, depth), depth)

\* after a member: "}" ends the object, "," starts the next member
MemberSep(s, j, items, depth) ==
    CASE At(s, j) = 125 -> Ok(PyDict(items), j + 1)
      [] At(s, j) = 44 -> ParseMembers(s, SkipWs(s, j + 1), items, depth)
      [] OTHER -> FailAt(depth)

MemberValue(s, acc, key, r, depth) ==
    IF ~r.ok THEN r
    ELSE MemberSep(s, SkipWs(s, r.pos), SetItem(acc, key, r.val), depth)

MemberColon(s, acc, key, c, depth) ==
    IF At(s, c) # 58 THEN FailAt(depth)
    ELSE MemberValue(s, acc, key, ParseValue(s, SkipWs(s, c + 1), depth), depth)

MemberKey(s, acc, k, depth) ==
    IF ~k.ok THEN k ELSE MemberColon(s, acc, k.val.v, SkipWs(s, k.pos), depth)

\* i is at the opening quote of a key
ParseMembers(s, i, acc, depth) ==
    IF At(s, i) # 34 THEN FailAt(depth)
    ELSE MemberKey(s, acc, ScanString(s, i + 1, <<>>, depth), depth)

\* an array or an object nested deeper than MaxNesting raises RecursionError
\* where it opens
ParseValue(s, i, depth) ==
    LET c == At(s, i) IN
    CASE c = 34 -> ScanString(s, i + 1, <<>>, depth)
      [] c \in {123, 91} /\ depth + 1 > MaxNesting -> Throw("RecursionError")
      [] c = 123 ->
            LET j == SkipWs(s, i + 1) IN
            IF At(s, j) = 125 THEN Ok(PyDict(<<>>), j + 1)
            ELSE ParseMembers(s, j, <<>>, depth + 1)
      [] c = 91 ->
            LET j == SkipWs(s, i + 1) IN
            IF At(s, j) = 93 THEN Ok(PyList(<<>>), j + 1)
            ELSE ParseElems(s, j, <<>>, depth + 1)
      [] c = 110 /\ StartsWith(s, i, Lit("null")) -> Ok(PyNone, i + 4)
      [] c = 116 /\ StartsWith(s, i, Lit("true")) -> Ok(PyBool(TRUE), i + 4)
      [] c = 102 /\ StartsWith(s, i, Lit("false")) -> Ok(PyBool(FALSE), i + 5)
      [] c = 78 /\ StartsWith(s, i, Lit("NaN")) -> Ok(PyFloat(Lit("NaN")), i + 3)
      [] c = 73 /\ StartsWith(s, i, Lit("Infinity")) ->
            Ok(PyFloat(Lit("Infinity")), i + 8)
      [] c = 45 /\ StartsWith(s, i, Lit("-Infinity")) ->
            Ok(PyFloat(Lit("-Infinity")), i + 9)
      [] OTHER -> ScanNumber(s, i)

\* only whitespace may follow the value
LoadsEnd(s, r) ==
    IF ~r.ok THEN r
    ELSE IF SkipWs(s, r.pos) # Len(s) + 1 THEN Throw("JSONDecodeError")
    ELSE r

\* json.loads(text): the value, or [ok |-> FALSE] with the exception raised:
\* JSONDecodeError, ValueError (an integer of too many digits) or
\* RecursionError
JsonLoads(s) == LoadsEnd(s, ParseValue(s, SkipWs(s, 1), 0))

(***************************************************************************)
(* Text <-> bytes (UTF-8, errors="strict") and text-mode newline handling  *)
(***************************************************************************)
EncodeChar(c) ==
    IF c < 128 THEN <<c>>
    ELSE IF c < 2048 THEN <<192 + (c \div 64), 128 + (c % 64)>>
    ELSE IF c < 65536
         THEN <<224 + (c \div 4096), 128 + ((c \div 64) % 64), 128 + (c % 64)>>
    ELSE <<240 + (c \div 262144), 128 + ((c \div 4096) % 64),
           128 + ((c \div 64) % 64), 128 + (c % 64)>>

IsSurrogate(c) == c >= 55296 /\ c <= 57343

\* str.encode('utf-8'): [ok |-> FALSE] stands for UnicodeEncodeError
RECURSIVE Utf8Encode(_)
Utf8Encode(s) ==
    IF s = <<>> THEN [ok |-> TRUE, bytes |-> <<>>]
    ELSE IF IsSurrogate(Head(s)) THEN [ok |-> FALSE, bytes |-> <<>>]
    ELSE LET r == Utf8Encode(Tail(s)) IN
         [ok |-> r.ok, bytes |-> IF r.ok THEN EncodeChar(Head(s)) \o r.bytes ELSE <<>>]

IsCont(b) == b >= 128 /\ b <= 191

\* bytes.decode('utf-8'): [ok |-> FALSE] stands for UnicodeDecodeError
RECURSIVE Utf8DecodeFrom(_, _, _)
Utf8DecodeFrom(b, i, acc) ==
    LET b1 == At(b, i)
        b2 == At(b, i + 1)
        b3 == At(b, i + 2)
        b4 == At(b, i + 3)
        bad == [ok |-> FALSE, text |-> <<>>]
    IN  IF i > Len(b) THEN [ok |-> TRUE, text |-> acc]
        ELSE IF b1 < 128 THEN Utf8DecodeFrom(b, i + 1, Append(acc, b1))
        ELSE IF b1 >= 194 /\ b1 <= 223
             THEN IF IsCont(b2)
                  THEN Utf8DecodeFrom(b, i + 2, Append(acc, (b1 - 192) * 64 + (b2 - 128)))
                  ELSE bad
        ELSE IF b1 >= 224 /\ b1 <= 239
             THEN LET c == (b1 - 224) * 4096 + (b2 - 128) * 64 + (b3 - 128) IN
                  IF IsCont(b2) /\ IsCont(b3) /\ c >= 2048 /\ ~IsSurrogate(c)
                  THEN Utf8DecodeFrom(b, i + 3, Append(acc, c))
                  ELSE bad
        ELSE IF b1 >= 240 /\ b1 <= 244
             THEN LET c == (b1 - 240) * 262144 + (b2 - 128) * 4096
                           + (b3 - 128) * 64 + (b4 - 128) IN
                  IF IsCont(b2) /\ IsCont(b3) /\ IsCont(b4) /\ c >= 65536 /\ c <= 1114111
                  THEN Utf8DecodeFrom(b, i + 4, Append(acc, c))
                  ELSE bad
        ELSE bad

Utf8Decode(b) == Utf8DecodeFrom(b, 1, <<>>)

\* reading in text mode with newline=None: "\r\n" and "\r" become "\n"
RECURSIVE UniversalNewlines(_)
UniversalNewlines(s) ==
    IF s = <<>> THEN <<>>
    ELSE IF Head(s) = 13
         THEN IF Len(s) >= 2 /\ s[2] = 10
              THEN <<10>> \o UniversalNewlines(Tail(Tail(s)))
              ELSE <<10>> \o UniversalNewlines(Tail(s))
    ELSE <<Head(s)>> \o UniversalNewlines(Tail(s))

\* writing in text mode with newline=None: "\n" becomes os.linesep ("\n")
WriteNewlines(s) == s

(***************************************************************************)
(* State                                                                   *)
(***************************************************************************)
VARIABLES
    env,      \* names of the environment variables that are set
    fs,       \* local filesystem: path -> bytes, for the paths that exist
    s3,       \* the object store: bucket -> (key -> bytes)
    render,   \* the disk behind the file service: key -> stored JSON value
    last,     \* the last call of the public interface and how it ended
    ops,      \* number of calls made so far
    written,  \* history: the keys a put or upload has stored, per backend
    platform  \* where the process runs: AWS_LAMBDA_FUNCTION_NAME set or not,
              \* the value of RENDER ("None" when unset), the machine's hostname

vars == <<env, fs, s3, render, last, ops, written, platform>>

\* number of calls of the public interface in one run
MaxOps == 2

EnvVars ==
    {"AWS_WATCHDOG_ACCESS_KEY", "AWS_WATCHDOG_SECRET_KEY", "AWS_WATCHDOG_BUCKET",
     "RENDER_FILE_API_KEY"}

\* names used as file_name, and as the file_path of a Local put or get
Names == {"k"}

\* local_file_path arguments of upload: a data file, and a file named like the bucket
UploadPaths == {"k", "watchdog-bucket"}

\* paths no open() can create or truncate: the empty path, and a path in a
\* directory that does not exist
Unopenable == {"", "nodir/copy"}

\* local_file_path arguments of download: the data file, a new path, and a
\* path in a directory that does not exist
DownloadPaths == {"k", "copy", "nodir/copy"}

\* host arguments: the two recognized tags and two other strings
Hosts == {"Amazon", "Render", "Local", "Mystery"}

\* data_format arguments: the two supported values and another one
Formats == {"text", "json", "xml"}

\* data arguments of put
TextValues == {<<233, 13>>, <<123>>}
DataValues ==
    {PyStr(t) : t \in TextValues}
        \cup {PyNone, PyInt(2),
              \* an int, a character above U+FFFF and the float 0.0
              PyList(<<PyInt(255), PyStr(<<128512>>), PyFloat(<<48, 46, 48>>)>>),
              PyDict(<<Item(<<97>>, PyInt(1))>>), PyObject}

\* the environments a run starts in: every variable set, one unset, none set
Environments == {EnvVars, {}} \cup {EnvVars \ {v} : v \in EnvVars}

\* how the file service answers a read with data_format=json
ServiceModes == {"string", "parsed"}

NoError == [tag |-> "", detail |-> ""]
Error(tag, detail) == [tag |-> tag, detail |-> detail]
UnsupportedFormat == "Unsupported data_format. Only text and json are supported."

\* f with f[k] set to v, k added to its domain when new
Store(f, k, v) == [x \in DOMAIN f \cup {k} |-> IF x = k THEN v ELSE f[x]]
Empty == [x \in {} |-> <<>>]

\* os.getenv(name): the value when set, None otherwise
EnvValue ==
    [AWS_WATCHDOG_ACCESS_KEY |-> "access-key", AWS_WATCHDOG_SECRET_KEY |-> "secret-key",
     AWS_WATCHDOG_BUCKET |-> "watchdog-bucket", RENDER_FILE_API_KEY |-> "api-key"]
Getenv(name) == IF name \in env THEN EnvValue[name] ELSE "None"

(***************************************************************************)
(* aws_s3_manager.S3Manager                                                *)
(* Every method yields [err, (value,) fs, s3, files, net]: the returned    *)
(* error, the stores after the call, and the numbers of local file         *)
(* operations and of network requests it made.  ok says whether the        *)
(* backend answers the request made.                                       *)
(***************************************************************************)
\* the buckets the credentials reach: the one AWS_WATCHDOG_BUCKET names and
\* another one, named like a local path
Buckets == {EnvValue["AWS_WATCHDOG_BUCKET"], "k"}
BucketExists(bucket_name) == bucket_name \in Buckets

\* s3 with the object under key of the bucket set to bytes
StoreObject(bucket_name, key, bytes) ==
    [s3 EXCEPT ![bucket_name] = Store(@, key, bytes)]

\* the bucket has an object under key
HasObject(bucket_name, key) == BucketExists(bucket_name) /\ key \in DOMAIN s3[bucket_name]

\* content.encode(encoding): no str has no encode (AttributeError)
EncodeContent(content) ==
    IF IsStr(content) THEN Utf8Encode(content.v) ELSE [ok |-> FALSE, bytes |-> <<>>]

PutObject(bucket_name, s3_path, enc, ok) ==
    IF ~enc.ok
    THEN [err |-> Error("[AWS Put Error]", "encode"), s3 |-> s3, net |-> 0]
    ELSE IF ~ok \/ ~BucketExists(bucket_name)
    THEN [err |-> Error("[AWS Put Error]", "client"), s3 |-> s3, net |-> 1]
    ELSE [err |-> NoError, s3 |-> StoreObject(bucket_name, s3_path, enc.bytes), net |-> 1]

S3Manager_put_text(bucket_name, s3_path, content, ok) ==
    PutObject(bucket_name, s3_path, EncodeContent(content), ok)

\* response['Body'].read().decode(encoding)
DecodeBody(dec) ==
    IF ~dec.ok
    THEN [value |-> PyNone, err |-> Error("[AWS Get Error]", "decode"), net |-> 1]
    ELSE [value |-> PyStr(dec.text), err |-> NoError, net |-> 1]

S3Manager_get_text(bucket_name, s3_path, ok) ==
    IF ~ok \/ ~HasObject(bucket_name, s3_path)
    THEN [value |-> PyNone, err |-> Error("[AWS Get Error]", "client"), net |-> 1]
    ELSE DecodeBody(Utf8Decode(s3[bucket_name][s3_path]))

S3Manager_upload_file(bucket_name, local_file_path, s3_file_path, ok) ==
    IF local_file_path \notin DOMAIN fs
    THEN [err |-> Error("[AWS Upload Error]", "file"), s3 |-> s3, files |-> 1, net |-> 0]
    ELSE IF ~ok \/ ~BucketExists(bucket_name)
    THEN [err |-> Error("[AWS Upload Error]", "client"), s3 |-> s3, files |-> 1, net |-> 1]
    ELSE [err |-> NoError,
          s3 |-> StoreObject(bucket_name, s3_file_path, fs[local_file_path]),
          files |-> 1, net |-> 1]

\* the client fetches the object, then writes the file
S3Manager_download_file(bucket_name, s3_file_path, local_file_path, ok) ==
    IF ~ok \/ ~HasObject(bucket_name, s3_file_path)
    THEN [err |-> Error("[AWS Download Error]", "client"), fs |-> fs, files |-> 0, net |-> 1]
    ELSE IF local_file_path \in Unopenable
    THEN [err |-> Error("[AWS Download Error]", "file"), fs |-> fs, files |-> 1, net |-> 1]
    ELSE [err |-> NoError,
          fs |-> Store(fs, local_file_path, s3[bucket_name][s3_file_path]),
          files |-> 1, net |-> 1]

\* file_exists that takes every answer of the service, a 404 included, for True
S3Manager_file_exists_any_answer(bucket_name, s3_path, ok) ==
    [value |-> PyBool(ok), net |-> 1]

\* head_object answers for an object of the bucket; every exception gives False
S3Manager_file_exists(bucket_name, s3_path, ok) ==
    [value |-> PyBool(ok /\ HasObject(bucket_name, s3_path)),
     net |-> 1]

(***************************************************************************)
(* The file service behind render_file_manager (wire contract):            *)
(* PUT /files/{key} {"data", "data_format"} stores data, GET returns       *)
(* {"data": ...}; a request without the API key header is refused.         *)
(***************************************************************************)
Authorized(api_key) == api_key # "None"

\* what the service holds after a PUT of data: the JSON body as parsed
ServiceStored(data) == JsonLoads(JsonDumps(data)).val

\* the "data" of the answer to a GET; [ok |-> FALSE] is a non-2xx answer
ServiceRead(stored, data_format, mode) ==
    IF data_format = "json" /\ mode = "parsed" /\ IsStr(stored)
    THEN JsonLoads(stored.v)
    ELSE Ok(stored, 0)

(***************************************************************************)
(* render_file_manager.RenderFileManager (api_key: the X-API-Key header)   *)
(***************************************************************************)
\* list(f.read()): the bytes as a list of ints
ByteList(bytes) == PyList([i \in 1..Len(bytes) |-> PyInt(bytes[i])])

IntOf(x) == IF x.t = "bool" THEN (IF x.v THEN 1 ELSE 0) ELSE x.v

\* bytes(content): [ok |-> FALSE] stands for TypeError, ValueError,
\* OverflowError and MemoryError.  An int is a count of zero bytes: a negative
\* one is refused (ValueError), and so is one above sys.maxsize less the 33
\* bytes of the object's header (OverflowError).  A result that is not empty
\* is allocated: the machine has the memory for it (mem), or bytes raises
\* MemoryError; the empty result is the interpreter's one empty bytes object.
BytesOf(content, mem) ==
    CASE content.t \in {"int", "bool"} ->
            IF IntOf(content) < 0 \/ (IntOf(content) > 0 /\ ~mem)
            THEN [ok |-> FALSE, bytes |-> <<>>]
            ELSE [ok |-> TRUE, bytes |-> [i \in 1..IntOf(content) |-> 0]]
      [] content.t = "bigint" ->
            IF \/ content.v[1] = 45
               \/ BigCmp(BigFromText(content.v),
                         BigFromText(<<57, 50, 50, 51, 51, 55, 50, 48, 51, 54,
                                       56, 53, 52, 55, 55, 53, 55, 55, 52>>)) > 0
               \/ ~mem
            THEN [ok |-> FALSE, bytes |-> <<>>]
            ELSE [ok |-> TRUE,
                  bytes |-> [i \in 1..DigitsValue(content.v, 1, Len(content.v) + 1) |-> 0]]
      [] content.t = "list" ->
            IF /\ \A i \in 1..Len(content.v) :
                      /\ content.v[i].t \in {"int", "bool"}
                      /\ IntOf(content.v[i]) \in 0..255
               /\ (mem \/ content.v = <<>>)
            THEN [ok |-> TRUE, bytes |-> [i \in 1..Len(content.v) |-> IntOf(content.v[i])]]
            ELSE [ok |-> FALSE, bytes |-> <<>>]
      [] content.t = "dict" -> [ok |-> content.v = <<>>, bytes |-> <<>>]
      [] OTHER -> [ok |-> FALSE, bytes |-> <<>>]

\* open(local_file_path, 'wb') fails, or creates or truncates the file
\* before bytes(content) runs
WriteContent(local_file_path, b) ==
    IF local_file_path \in Unopenable
    THEN [err |-> Error("[Render Download Error]", "open"), fs |-> fs,
          files |-> 1, net |-> 1]
    ELSE IF ~b.ok
    THEN [err |-> Error("[Render Download Error]", "bytes"),
          fs |-> Store(fs, local_file_path, <<>>), files |-> 1, net |-> 1]
    ELSE [err |-> NoError, fs |-> Store(fs, local_file_path, b.bytes),
          files |-> 1, net |-> 1]

RenderFileManager_download_file(api_key, disk_path, local_file_path, ok, mem) ==
    IF ~ok \/ ~Authorized(api_key) \/ disk_path \notin DOMAIN render
    THEN [err |-> Error("[Render Download Error]", "request"), fs |-> fs,
          files |-> 0, net |-> 1]
    ELSE WriteContent(local_file_path, BytesOf(render[disk_path], mem))

RenderFileManager_upload_file(api_key, local_file_path, disk_path, ok) ==
    IF local_file_path \notin DOMAIN fs
    THEN [err |-> Error("[Render Upload Error]", "file"), render |-> render,
          files |-> 1, net |-> 0]
    ELSE IF ~ok \/ ~Authorized(api_key)
    THEN [err |-> Error("[Render Upload Error]", "request"), render |-> render,
          files |-> 1, net |-> 1]
    ELSE [err |-> NoError,
          render |-> Store(render, disk_path, ServiceStored(ByteList(fs[local_file_path]))),
          files |-> 1, net |-> 1]

\* requests serializes the body {"data": data, "data_format": data_format}:
\* data is one level down in it, and the request is built seven frames below
\* put_object (requests.put, request, Session.request, prepare_request,
\* prepare, prepare_body, then json.dumps one frame below _write_to_render's)
RenderFileManager_put_object(api_key, disk_path, data, data_format, ok) ==
    IF DumpsError(data, 8) # ""
    THEN [err |-> Error("[Render Put Error]", "json"), render |-> render, net |-> 0]
    ELSE IF ~ok \/ ~Authorized(api_key)
    THEN [err |-> Error("[Render Put Error]", "request"), render |-> render, net |-> 1]
    ELSE [err |-> NoError, render |-> Store(render, disk_path, ServiceStored(data)),
          net |-> 1]

\* response.raise_for_status(); response.json()["data"]
ResponseData(r) ==
    IF ~r.ok
    THEN [value |-> PyNone, err |-> Error("[Render Get Error]", "request"), net |-> 1]
    ELSE [value |-> r.val, err |-> NoError, net |-> 1]

RenderFileManager_get_object(api_key, disk_path, data_format, ok, mode) ==
    IF ~ok \/ ~Authorized(api_key) \/ disk_path \notin DOMAIN render
    THEN [value |-> PyNone, err |-> Error("[Render Get Error]", "request"), net |-> 1]
    ELSE ResponseData(ServiceRead(render[disk_path], data_format, mode))

\* response.status_code == 200 of a bare GET; every exception gives False
RenderFileManager_file_exists(api_key, disk_path, ok) ==
    [value |-> PyBool(ok /\ Authorized(api_key) /\ disk_path \in DOMAIN render),
     net |-> 1]

(***************************************************************************)
(* cloud_manager.get_host                                                  *)
(***************************************************************************)
\* values of RENDER: unset, the marker, and a value that only looks like it
RenderValues == {"None", "true", "True"}

\* hostnames: an ordinary one, and one that reads like a platform tag
Hostnames == {"workstation", "Render"}

Platforms ==
    [lambda : BOOLEAN, render : RenderValues, hostname : Hostnames]

\* get_host that tests the RENDER marker first
get_host_render_first ==
    IF platform.render = "true" THEN "Render"
    ELSE IF platform.lambda THEN "Amazon"
    ELSE platform.hostname

get_host ==
    IF platform.lambda THEN "Amazon"
    ELSE IF platform.render = "true" THEN "Render"
    ELSE platform.hostname

(***************************************************************************)
(* cloud_manager                                                           *)
(* A call ends "returned" (with err, and value for a read) or "raised"     *)
(* (with the exception's type in exc).  reads counts os.getenv calls.      *)
(***************************************************************************)
Returned(err, value, nfs, ns3, nrender, files, net, reads) ==
    [outcome |-> "returned", exc |-> "", err |-> err, value |-> value, path |-> "",
     fs |-> nfs, s3 |-> ns3, render |-> nrender,
     files |-> files, net |-> net, reads |-> reads]

\* a raise of the write functions comes before the call's first file or
\* network operation
Raised(exc, reads) ==
    [outcome |-> "raised", exc |-> exc, err |-> NoError, value |-> PyNone, path |-> "",
     fs |-> fs, s3 |-> s3, render |-> render,
     files |-> 0, net |-> 0, reads |-> reads]

\* the adapters' results as results of the call
FromS3(r, reads) == Returned(r.err, PyNone, fs, r.s3, render, 0, r.net, reads)
FromS3File(r, reads) == Returned(r.err, PyNone, fs, r.s3, render, r.files, r.net, reads)
FromRender(r, reads) == Returned(r.err, PyNone, fs, s3, r.render, 0, r.net, reads)
FromRenderFile(r, reads) ==
    Returned(r.err, PyNone, fs, s3, r.render, r.files, r.net, reads)
ToLocalFile(r, reads) == Returned(r.err, PyNone, r.fs, s3, render, r.files, r.net, reads)

initialize_amazon ==
    LET access_key == Getenv("AWS_WATCHDOG_ACCESS_KEY")
        secret_key == Getenv("AWS_WATCHDOG_SECRET_KEY")
        bucket == Getenv("AWS_WATCHDOG_BUCKET")
    IN  [raises |-> access_key = "None" \/ secret_key = "None" \/ bucket = "None",
         bucket |-> bucket, reads |-> 3]

initialize_render == [api_key |-> Getenv("RENDER_FILE_API_KEY"), reads |-> 1]

\* "convert json to text if necessary", for a supported data_format
ToText(data, data_format) ==
    IF data_format = "json" THEN PyStr(JsonDumps(data)) ELSE data

\* _write_to_amazon that validates the format before it resolves the credentials
write_to_amazon_format_first(file_name, data, data_format, ok) ==
    LET init == initialize_amazon IN
    IF data_format = "json" /\ DumpsError(data, 0) # ""
    THEN Raised(DumpsError(data, 0), 0)
    ELSE IF data_format \notin {"json", "text"} THEN Raised("TypeError", 0)
    ELSE IF init.raises THEN Raised("EnvironmentError", init.reads)
    ELSE FromS3(S3Manager_put_text(init.bucket, file_name,
                                   ToText(data, data_format), ok), init.reads)

write_to_amazon(file_name, data, data_format, ok) ==
    LET init == initialize_amazon IN
    IF init.raises THEN Raised("EnvironmentError", init.reads)
    ELSE IF data_format = "json" /\ DumpsError(data, 0) # ""
    THEN Raised(DumpsError(data, 0), init.reads)
    ELSE IF data_format \notin {"json", "text"} THEN Raised("TypeError", init.reads)
    ELSE FromS3(S3Manager_put_text(init.bucket, file_name,
                                   ToText(data, data_format), ok), init.reads)

write_to_render(file_name, data, data_format, ok) ==
    LET manager == initialize_render IN
    IF data_format = "json" /\ DumpsError(data, 0) # ""
    THEN Raised(DumpsError(data, 0), manager.reads)
    ELSE IF data_format \notin {"json", "text"} THEN Raised("TypeError", manager.reads)
    ELSE FromRender(RenderFileManager_put_object(manager.api_key, file_name,
                        ToText(data, data_format), "text", ok), manager.reads)

\* f.write(data) in text mode: no str raises TypeError, else the encoded text
FileBytes(data) ==
    IF IsStr(data) THEN Utf8Encode(WriteNewlines(data.v)) ELSE [ok |-> FALSE, bytes |-> <<>>]

\* open(file_path, 'w') creates or truncates the file before f.write(data) runs
WriteFile(file_path, enc, ok) ==
    IF ~ok \/ file_path \in Unopenable
    THEN Returned(Error("[Local Write Error]", "open"), PyNone, fs, s3, render, 1, 0, 0)
    ELSE IF ~enc.ok
    THEN Returned(Error("[Local Write Error]", "write"), PyNone,
                  Store(fs, file_path, <<>>), s3, render, 1, 0, 0)
    ELSE Returned(NoError, PyNone, Store(fs, file_path, enc.bytes), s3, render, 1, 0, 0)

write_to_local(file_path, data, data_format, ok) ==
    IF data_format = "json" /\ DumpsError(data, 0) # "" THEN Raised(DumpsError(data, 0), 0)
    ELSE IF data_format \notin {"json", "text"} THEN Raised("TypeError", 0)
    ELSE WriteFile(file_path, FileBytes(ToText(data, data_format)), ok)

\* json.loads(data) in the read functions: JSONDecodeError is caught, every
\* other exception leaves the call, after the read
Loaded(tag, r, files, net, reads) ==
    IF r.ok THEN Returned(NoError, r.val, fs, s3, render, files, net, reads)
    ELSE IF r.exc = "JSONDecodeError"
    THEN Returned(Error(tag, "JSONDecodeError"), PyNone, fs, s3, render, files, net, reads)
    ELSE [Raised(r.exc, reads) EXCEPT !.files = files, !.net = net]

\* ReadConvert that hands back the data read along with the unsupported-format error
ReadConvert_keeps_data(tag, data, data_format, isText, files, net, reads) ==
    IF data_format = "json" /\ isText
    THEN Loaded(tag, JsonLoads(data.v), files, net, reads)
    ELSE IF data_format # "text"
    THEN Returned(Error("", UnsupportedFormat), data, fs, s3, render, files, net, reads)
    ELSE Returned(NoError, data, fs, s3, render, files, net, reads)

\* "convert text to json if necessary": isText is TRUE on S3 and Local, and
\* isinstance(data, str) on Render
ReadConvert(tag, data, data_format, isText, files, net, reads) ==
    IF data_format = "json" /\ isText
    THEN Loaded(tag, JsonLoads(data.v), files, net, reads)
    ELSE IF data_format # "text"
    THEN Returned(Error("", UnsupportedFormat), PyNone, fs, s3, render, files, net, reads)
    ELSE Returned(NoError, data, fs, s3, render, files, net, reads)

AmazonRead(r, data_format, reads) ==
    IF r.err # NoError
    THEN Returned(r.err, PyNone, fs, s3, render, 0, r.net, reads)
    ELSE ReadConvert("[Amazon Read Error]", r.value, data_format, TRUE, 0, r.net, reads)

read_from_amazon(file_name, data_format, ok) ==
    LET init == initialize_amazon IN
    IF init.raises THEN Raised("EnvironmentError", init.reads)
    ELSE AmazonRead(S3Manager_get_text(init.bucket, file_name, ok), data_format, init.reads)

RenderRead(r, data_format, reads) ==
    IF r.err # NoError
    THEN Returned(r.err, PyNone, fs, s3, render, 0, r.net, reads)
    ELSE ReadConvert("[Render Read Error]", r.value, data_format, IsStr(r.value),
                     0, r.net, reads)

read_from_render(file_name, data_format, ok, mode) ==
    LET manager == initialize_render IN
    RenderRead(RenderFileManager_get_object(manager.api_key, file_name, data_format,
                                            ok, mode),
               data_format, manager.reads)

\* f.read() in text mode
LocalRead(dec, data_format) ==
    IF ~dec.ok
    THEN Returned(Error("[Local Read Error]", "read"), PyNone, fs, s3, render, 1, 0, 0)
    ELSE ReadConvert("[Local Read Error]", PyStr(UniversalNewlines(dec.text)),
                     data_format, TRUE, 1, 0, 0)

read_from_local(file_path, data_format, ok) ==
    LocalRead(IF ok /\ file_path \in DOMAIN fs THEN Utf8Decode(fs[file_path])
              ELSE [ok |-> FALSE, text |-> <<>>],
              data_format)

\* the call passes (local_file_path, bucket, file_name) to
\* upload_file(bucket_name, local_file_path, s3_file_path)
upload_to_amazon(local_file_path, file_name, ok) ==
    LET init == initialize_amazon IN
    IF init.raises THEN Raised("EnvironmentError", init.reads)
    ELSE FromS3File(S3Manager_upload_file(local_file_path, init.bucket, file_name, ok),
                    init.reads)

upload_to_render(local_file_path, file_name, ok) ==
    LET manager == initialize_render IN
    FromRenderFile(RenderFileManager_upload_file(manager.api_key, local_file_path,
                                                 file_name, ok), manager.reads)

download_from_amazon(file_name, local_file_path, ok) ==
    LET init == initialize_amazon IN
    IF init.raises THEN Raised("EnvironmentError", init.reads)
    ELSE ToLocalFile(S3Manager_download_file(init.bucket, file_name, local_file_path, ok),
                     init.reads)

download_from_render(file_name, local_file_path, ok, mem) ==
    LET manager == initialize_render IN
    ToLocalFile(RenderFileManager_download_file(manager.api_key, file_name,
                                                local_file_path, ok, mem), manager.reads)

\* r, reached through the branch of the host dispatch named path
Via(path, r) == [r EXCEPT !.path = path]

\* put with a table of known hosts: an unknown host is an error
put_known_hosts(file_name, data, host, data_format, ok) ==
    IF host = "Amazon" THEN Via("s3", write_to_amazon(file_name, data, data_format, ok))
    ELSE IF host = "Render"
    THEN Via("render", write_to_render(file_name, data, data_format, ok))
    ELSE IF host = "Local"
    THEN Via("local", write_to_local(file_name, data, data_format, ok))
    ELSE Via("none", Raised("KeyError", 0))

put(file_name, data, host, data_format, ok) ==
    IF host = "Amazon" THEN Via("s3", write_to_amazon(file_name, data, data_format, ok))
    ELSE IF host = "Render"
    THEN Via("render", write_to_render(file_name, data, data_format, ok))
    ELSE Via("local", write_to_local(file_name, data, data_format, ok))

get(file_name, host, data_format, ok, mode) ==
    IF host = "Amazon" THEN Via("s3", read_from_amazon(file_name, data_format, ok))
    ELSE IF host = "Render"
    THEN Via("render", read_from_render(file_name, data_format, ok, mode))
    ELSE Via("local", read_from_local(file_name, data_format, ok))

\* upload whose Local branch checks that the file to upload exists
upload_checks_file(local_file_path, file_name, host, ok) ==
    IF host = "Amazon" THEN Via("s3", upload_to_amazon(local_file_path, file_name, ok))
    ELSE IF host = "Render"
    THEN Via("render", upload_to_render(local_file_path, file_name, ok))
    ELSE IF local_file_path \in DOMAIN fs
    THEN Via("local", Returned(NoError, PyNone, fs, s3, render, 1, 0, 0))
    ELSE Via("local", Returned(Error("[Local Upload Error]", "file"), PyNone,
                               fs, s3, render, 1, 0, 0))

upload(local_file_path, file_name, host, ok) ==
    IF host = "Amazon" THEN Via("s3", upload_to_amazon(local_file_path, file_name, ok))
    ELSE IF host = "Render"
    THEN Via("render", upload_to_render(local_file_path, file_name, ok))
    ELSE Via("local", Returned(NoError, PyNone, fs, s3, render, 0, 0, 0))

download(file_name, local_file_path, host, ok, mem) ==
    IF host = "Amazon" THEN Via("s3", download_from_amazon(file_name, local_file_path, ok))
    ELSE IF host = "Render"
    THEN Via("render", download_from_render(file_name, local_file_path, ok, mem))
    ELSE Via("local", Returned(NoError, PyNone, fs, s3, render, 0, 0, 0))

(***************************************************************************)
(* Calls of the public interface                                           *)
(***************************************************************************)
\* the call made and how it ended
Record(op, name, local, data, host, data_format, ok, r) ==
    [op |-> op, name |-> name, local |-> local, data |-> data, host |-> host,
     fmt |-> data_format, ok |-> ok,
     outcome |-> r.outcome, exc |-> r.exc, err |-> r.err, value |-> r.value,
     path |-> r.path, files |-> r.files, net |-> r.net, reads |-> r.reads]

Effect(r) ==
    /\ ops' = ops + 1
    /\ fs' = r.fs
    /\ s3' = r.s3
    /\ render' = r.render
    /\ UNCHANGED <<env, platform>>

\* written, with key added for host when the call r returned ""
Wrote(host, key, r) ==
    IF host \in DOMAIN written /\ r.outcome = "returned" /\ r.err = NoError
    THEN [written EXCEPT ![host] = @ \cup {key}]
    ELSE written

Put(file_name, data, host, data_format, ok) ==
    /\ ops < MaxOps
    /\ \E r \in {put(file_name, data, host, data_format, ok)} :
           /\ Effect(r)
           /\ written' = Wrote(host, file_name, r)
           /\ last' = Record("put", file_name, "", data, host, data_format, ok, r)

Get(file_name, host, data_format, ok, mode) ==
    /\ ops < MaxOps
    /\ \E r \in {get(file_name, host, data_format, ok, mode)} :
           /\ Effect(r)
           /\ UNCHANGED written
           /\ last' = Record("get", file_name, "", PyNone, host, data_format, ok, r)

Upload(local_file_path, file_name, host, ok) ==
    /\ ops < MaxOps
    /\ \E r \in {upload(local_file_path, file_name, host, ok)} :
           /\ Effect(r)
           /\ written' = Wrote(host, file_name, r)
           /\ last' = Record("upload", file_name, local_file_path, PyNone, host, "", ok, r)

Download(file_name, local_file_path, host, ok) ==
    /\ ops < MaxOps
    /\ \E mem \in BOOLEAN :
         \E r \in {download(file_name, local_file_path, host, ok, mem)} :
           /\ Effect(r)
           /\ UNCHANGED written
           /\ last' = Record("download", file_name, local_file_path, PyNone, host, "", ok, r)

\* a call of an adapter's file_exists, the adapter built from the environment
\* as _initialize_amazon and _initialize_render build it
Answered(path, r, reads) ==
    Via(path, Returned(NoError, r.value, fs, s3, render, 0, r.net, reads))

S3Exists(s3_path, ok) ==
    /\ ops < MaxOps
    /\ ~initialize_amazon.raises
    /\ \E r \in {S3Manager_file_exists(initialize_amazon.bucket, s3_path, ok)} :
           /\ Effect(Answered("s3", r, initialize_amazon.reads))
           /\ UNCHANGED written
           /\ last' = Record("file_exists", s3_path, "", PyNone, "Amazon", "", ok,
                             Answered("s3", r, initialize_amazon.reads))

RenderExists(disk_path, ok) ==
    /\ ops < MaxOps
    /\ \E r \in {RenderFileManager_file_exists(initialize_render.api_key, disk_path, ok)} :
           /\ Effect(Answered("render", r, initialize_render.reads))
           /\ UNCHANGED written
           /\ last' = Record("file_exists", disk_path, "", PyNone, "Render", "", ok,
                             Answered("render", r, initialize_render.reads))

\* a call of get_host: the test of AWS_LAMBDA_FUNCTION_NAME is a membership
\* test of os.environ; os.getenv('RENDER') is called, once, when it fails
GetHost ==
    /\ ops < MaxOps
    /\ \E r \in {Returned(NoError, [t |-> "host", v |-> get_host], fs, s3, render,
                          0, 0, IF platform.lambda THEN 0 ELSE 1)} :
           /\ Effect(r)
           /\ UNCHANGED written
           /\ last' = Record("get_host", "", "", PyNone, "", "", TRUE, r)

\* what a run finds: nothing, in any environment; or, with every variable set,
\* two local binary files (one of them not UTF-8) and an object left in the
\* bucket by an earlier run
InitialStores ==
    {[env |-> e, fs |-> Empty, s3 |-> [b \in Buckets |-> Empty]] : e \in Environments}
    \cup
    {[env |-> EnvVars,
      fs |-> Store(Store(Empty, "k", <<255, 0>>), "watchdog-bucket", <<1>>),
      s3 |-> [b \in Buckets |->
                 IF b = EnvValue["AWS_WATCHDOG_BUCKET"] THEN Store(Empty, "k", <<254>>)
                 ELSE Empty]]}

Init ==
    /\ \E w \in InitialStores :
           /\ env = w.env
           /\ fs = w.fs
           /\ s3 = w.s3
           /\ written = [Amazon |-> DOMAIN w.s3[EnvValue["AWS_WATCHDOG_BUCKET"]],
                         Render |-> {}]
    /\ render = Empty
    /\ ops = 0
    /\ platform = [lambda |-> FALSE, render |-> "None", hostname |-> "workstation"]
    /\ last = [op |-> "none", name |-> "", local |-> "", data |-> PyNone, host |-> "",
               fmt |-> "", ok |-> TRUE,
               outcome |-> "returned", exc |-> "", err |-> NoError, value |-> PyNone,
               path |-> "", files |-> 0, net |-> 0, reads |-> 0]

\* data arguments of put: every value with a supported data_format, one with another
DataFor(data_format) ==
    IF data_format \in {"text", "json"} THEN DataValues ELSE {PyStr(<<123>>)}

\* the service's answers differ only for a read with data_format=json
ModesFor(host, data_format) ==
    IF host = "Render" /\ data_format = "json" THEN ServiceModes ELSE {"string"}

Next ==
    \/ \E n \in Names, h \in Hosts, f \in Formats, ok \in BOOLEAN :
           \E d \in DataFor(f) : Put(n, d, h, f, ok)
    \/ \E n \in Names, h \in Hosts, f \in Formats, ok \in BOOLEAN :
           \E m \in ModesFor(h, f) : Get(n, h, f, ok, m)
    \/ \E p \in UploadPaths, n \in Names, h \in Hosts, ok \in BOOLEAN :
           Upload(p, n, h, ok)
    \/ \E n \in Names, p \in DownloadPaths, h \in Hosts, ok \in BOOLEAN :
           Download(n, p, h, ok)
    \/ \E n \in Names, ok \in BOOLEAN : S3Exists(n, ok)
    \/ \E n \in Names, ok \in BOOLEAN : RenderExists(n, ok)
    \/ GetHost

Spec == Init /\ [][Next]_vars

\* the same calls on every platform, with every variable of the backends set
\* and nothing stored
InitHost ==
    /\ platform \in Platforms
    /\ env = EnvVars
    /\ fs = Empty
    /\ s3 = [b \in Buckets |-> Empty]
    /\ render = Empty
    /\ written = [Amazon |-> {}, Render |-> {}]
    /\ ops = 0
    /\ last = [op |-> "none", name |-> "", local |-> "", data |-> PyNone, host |-> "",
               fmt |-> "", ok |-> TRUE,
               outcome |-> "returned", exc |-> "", err |-> NoError, value |-> PyNone,
               path |-> "", files |-> 0, net |-> 0, reads |-> 0]

\* host arguments of a caller on some platform: the ones of Hosts, and the
\* result of get_host threaded through
HostsHere == Hosts \cup {get_host}

\* get_host, and the calls of the interface with the backend answering
NextHost ==
    \/ GetHost
    \/ \E n \in Names, h \in HostsHere, f \in Formats :
           \E d \in DataFor("xml") : Put(n, d, h, f, TRUE)
    \/ \E n \in Names, h \in HostsHere, f \in Formats :
           \E m \in ModesFor(h, f) : Get(n, h, f, TRUE, m)
    \/ \E p \in UploadPaths, n \in Names, h \in HostsHere : Upload(p, n, h, TRUE)
    \/ \E n \in Names, p \in DownloadPaths, h \in HostsHere : Download(n, p, h, TRUE)

SpecHost == InitHost /\ [][NextHost]_vars


(***************************************************************************)
(* Properties                                                              *)
(***************************************************************************)
Called == last.op \in {"put", "get", "upload", "download"}
Succeeded == last.outcome = "returned" /\ last.err = NoError
IsLocalHost(host) == host \notin {"Amazon", "Render"}
AmazonEnvMissing ==
    \E v \in {"AWS_WATCHDOG_ACCESS_KEY", "AWS_WATCHDOG_SECRET_KEY", "AWS_WATCHDOG_BUCKET"} :
        v \notin env
RenderEnvMissing == "RENDER_FILE_API_KEY" \notin env

\* C1: every call is dispatched to the S3 path iff host = "Amazon", to the
\* file-service path iff host = "Render", and to the Local path for every other
\* host string; a call with an unrecognized host reads no credentials, makes no
\* network request and ends in no error other than the Local path's own.
C1_Dispatch ==
    Called =>
        /\ (last.path = "s3") <=> (last.host = "Amazon")
        /\ (last.path = "render") <=> (last.host = "Render")
        /\ (last.path = "local") <=> IsLocalHost(last.host)
        /\ IsLocalHost(last.host) =>
              /\ last.reads = 0 /\ last.net = 0
              /\ last.exc \in {"", "TypeError", "ValueError", "RecursionError"}
              /\ last.err.tag \in {"", "[Local Write Error]", "[Local Read Error]"}

\* an unrecognized host's put has written the local file
C1_Witness ==
    /\ last.op = "put" /\ last.host = "Mystery" /\ last.path = "local"
    /\ Succeeded
    /\ last.name \in DOMAIN fs

\* a put that returned "" is followed at once by a get of the same name on the
\* same host with the same data_format, the backend answering
PutThenGet(data_format) ==
    /\ last.op = "put" /\ last.fmt = data_format /\ Succeeded
    /\ last'.op = "get" /\ last'.fmt = data_format /\ last'.ok
    /\ last'.host = last.host /\ last'.name = last.name

\* C2: text round trip: on every host, a put of a text value v with format
\* "text" that returned "" is followed by a get with format "text" returning (v, "").
C2_TextRoundTrip ==
    [][(PutThenGet("text") /\ IsStr(last.data)) =>
           /\ last'.outcome = "returned"
           /\ last'.err = NoError
           /\ last'.value = last.data]_vars

\* C3: JSON round trip: on every host, a put of a JSON-representable value with
\* format "json" that returned "" is followed by a get with format "json"
\* returning a value equal to it and "", whether the file service answers with
\* the stored text or with the parsed value.
C3_JsonRoundTrip ==
    [][PutThenGet("json") =>
           /\ last'.outcome = "returned"
           /\ last'.err = NoError
           /\ last'.value = last.data]_vars

\* the call failed with a configuration error
ConfigurationError ==
    \/ last.outcome = "raised" /\ last.exc \in {"TypeError", "EnvironmentError"}
    \/ last.outcome = "returned" /\ last.err.detail = UnsupportedFormat

\* C4: a put or get with a data_format other than "text" and "json" fails with a
\* configuration error and makes no file operation and no network request.
C4_UnsupportedFormatNoIO ==
    (last.op \in {"put", "get"} /\ last.fmt \notin {"text", "json"}) =>
        /\ ConfigurationError
        /\ last.files = 0
        /\ last.net = 0

\* C5: on host "Amazon" or "Render", a call made with a required environment
\* variable of that backend unset fails with a configuration error and makes
\* no network request.
C5_MissingEnvNoNetwork ==
    (/\ Called
     /\ \/ last.host = "Amazon" /\ AmazonEnvMissing
        \/ last.host = "Render" /\ RenderEnvMissing) =>
        /\ ConfigurationError
        /\ last.net = 0

\* C6: no call of put, get, upload or download ends in a raised exception.
C6_NoException == Called => last.outcome = "returned"

\* C7: every non-empty error string returned starts with a bracketed backend tag.
C7_ErrorsTagged ==
    (Called /\ last.outcome = "returned" /\ last.err # NoError) => last.err.tag # ""

\* C8: on every host, the error get returns for malformed JSON carries a tag
\* other than the tag of the error the same get returns when the backend read fails.
C8_DistinctTags ==
    (/\ last.op = "get" /\ last.fmt = "json"
     /\ last.outcome = "returned" /\ last.err.detail = "JSONDecodeError") =>
        last.err.tag # get(last.name, last.host, "json", FALSE, "string").err.tag

\* C9 (as claimed): a get's non-empty error comes with the value None, its empty
\* error with a value that is not None, and a get on Local of a name with no
\* file returns (None, "[Local Read Error] ...").
C9_ValueIffNoError ==
    (last.op = "get" /\ last.outcome = "returned") =>
        /\ last.err # NoError => last.value = PyNone
        /\ last.err = NoError => last.value # PyNone
        /\ (IsLocalHost(last.host) /\ last.name \notin DOMAIN fs) =>
              (last.value = PyNone /\ last.err.tag = "[Local Read Error]")

\* text without leading and trailing JSON whitespace
RECURSIVE Strip(_)
Strip(s) ==
    IF s = <<>> THEN s
    ELSE IF IsWs(Head(s)) THEN Strip(Tail(s))
    ELSE IF IsWs(s[Len(s)]) THEN Strip(SubSeq(s, 1, Len(s) - 1))
    ELSE s

IsNullDocument(bytes) ==
    Utf8Decode(bytes).ok /\ Strip(Utf8Decode(bytes).text) = Lit("null")

\* what name holds on host is null: the JSON document null read with format
\* "json", or a null payload held by the file service
StoredNull(host, name, data_format) ==
    CASE host = "Amazon" ->
            /\ data_format = "json" /\ name \in DOMAIN s3[EnvValue["AWS_WATCHDOG_BUCKET"]]
            /\ IsNullDocument(s3[EnvValue["AWS_WATCHDOG_BUCKET"]][name])
      [] host = "Render" ->
            /\ name \in DOMAIN render
            /\ \/ render[name] = PyNone
               \/ /\ data_format = "json" /\ IsStr(render[name])
                  /\ Strip(render[name].v) = Lit("null")
      [] OTHER ->
            data_format = "json" /\ name \in DOMAIN fs /\ IsNullDocument(fs[name])

\* C9 (amended): a get's non-empty error comes with the value None; its empty
\* error comes with the data read, which is None only when the data read is
\* null; a get on Local of a name with no file returns (None, "[Local Read Error] ...").
C9_ValueOrError ==
    (last.op = "get" /\ last.outcome = "returned") =>
        /\ last.err # NoError => last.value = PyNone
        /\ (last.err = NoError /\ last.value = PyNone) =>
              StoredNull(last.host, last.name, last.fmt)
        /\ (IsLocalHost(last.host) /\ last.name \notin DOMAIN fs) =>
              (last.value = PyNone /\ last.err.tag = "[Local Read Error]")

\* a get of a name with no local file has returned (None, "[Local Read Error] ...")
C9_Witness ==
    /\ last.op = "get" /\ last.host = "Local" /\ last.fmt = "text"
    /\ last.name \notin DOMAIN fs
    /\ last.outcome = "returned"
    /\ last.value = PyNone /\ last.err.tag = "[Local Read Error]"

\* C10: an upload or download on a host other than "Amazon" and "Render" returns
\* "", makes no file operation and no network request, reads no environment
\* variable and leaves the local files and both backends' contents as they were.
C10_LocalTransferNoop ==
    [][(last'.op \in {"upload", "download"} /\ IsLocalHost(last'.host)) =>
           /\ last'.outcome = "returned" /\ last'.err = NoError
           /\ last'.files = 0 /\ last'.net = 0 /\ last'.reads = 0
           /\ UNCHANGED <<fs, s3, render>>]_vars

\* an upload on an unrecognized host of a local path that does not exist has
\* returned "", while a backend holds an object
C10_Witness ==
    /\ last.op = "upload" /\ last.host = "Mystery"
    /\ last.local \notin DOMAIN fs
    /\ Succeeded
    /\ s3[EnvValue["AWS_WATCHDOG_BUCKET"]] # Empty

\* C11: a call of file_exists on either adapter returns a boolean and no error,
\* never raises; it returns False for a key no put or upload has stored on that
\* backend and whenever the request fails, and True right after a put of the
\* key on the same backend returned "", the backend answering.
C11_Exists ==
    [][last'.op = "file_exists" =>
           /\ last'.outcome = "returned" /\ last'.err = NoError
           /\ last'.value \in {PyBool(TRUE), PyBool(FALSE)}
           /\ last'.name \notin written'[last'.host] => last'.value = PyBool(FALSE)
           /\ ~last'.ok => last'.value = PyBool(FALSE)
           /\ (/\ last.op = "put" /\ Succeeded
               /\ last.host = last'.host /\ last.name = last'.name
               /\ last'.ok) => last'.value = PyBool(TRUE)]_vars

\* file_exists on the S3 adapter has returned True for a key stored by the put before it
C11_Witness ==
    /\ last.op = "file_exists" /\ last.host = "Amazon" /\ ops = 2
    /\ fs = Empty
    /\ last.name \in written["Amazon"]
    /\ last.value = PyBool(TRUE)

\* C12: upload / download round trip: an upload of a local file holding the
\* bytes b to key k on Amazon or Render that returned "", followed by a download
\* of k on the same host that returned "", leaves the downloaded file holding b;
\* on Render the service holds the list of the byte values of b.
C12_TransferRoundTrip ==
    [][(/\ last.op = "upload" /\ Succeeded
        /\ last.host \in {"Amazon", "Render"}
        /\ last.local \in DOMAIN fs
        /\ last'.op = "download" /\ last'.host = last.host /\ last'.name = last.name
        /\ last'.outcome = "returned" /\ last'.err = NoError) =>
           /\ last'.local \in DOMAIN fs'
           /\ fs'[last'.local] = fs[last.local]
           /\ last.host = "Render" => render[last.name] = ByteList(fs[last.local])]_vars

\* the branch of the dispatch a call took is the one its host argument names
DispatchedByHost ==
    Called =>
        /\ (last.path = "s3") <=> (last.host = "Amazon")
        /\ (last.path = "render") <=> (last.host = "Render")
        /\ (last.path = "local") <=> IsLocalHost(last.host)

\* C13 (as claimed): get_host returns "Amazon" whenever AWS_LAMBDA_FUNCTION_NAME
\* is set; otherwise it returns "Render" iff RENDER is exactly "true"; otherwise
\* it returns the hostname.  The branch a put, get, upload or download takes is
\* the one its host argument names, whatever the platform markers are.
C13_HostIff ==
    /\ last.op = "get_host" =>
          /\ platform.lambda => last.value.v = "Amazon"
          /\ ~platform.lambda =>
                ((last.value.v = "Render") <=> (platform.render = "true"))
          /\ (~platform.lambda /\ platform.render # "true") =>
                last.value.v = platform.hostname
    /\ DispatchedByHost

\* C13 (amended): get_host returns "Amazon" whenever AWS_LAMBDA_FUNCTION_NAME is
\* set; otherwise "Render" if RENDER is exactly "true"; otherwise the hostname,
\* whatever it is (a machine named "Render" gets "Render").  The branch a put,
\* get, upload or download takes is the one its host argument names, whatever
\* the platform markers are.
C13_Host ==
    /\ last.op = "get_host" =>
          /\ last.outcome = "returned" /\ last.err = NoError
          /\ platform.lambda => last.value.v = "Amazon"
          /\ (~platform.lambda /\ platform.render = "true") => last.value.v = "Render"
          /\ (~platform.lambda /\ platform.render # "true") =>
                last.value.v = platform.hostname
    /\ DispatchedByHost

\* get_host has returned "Amazon" with both markers set
C13_Witness ==
    /\ last.op = "get_host"
    /\ platform.lambda /\ platform.render = "true"
    /\ last.value.v = "Amazon"

\* C14: order of validation in put.  On Amazon the credentials are resolved
\* before the format is validated: with a required variable unset and an
\* unsupported format the call fails with the missing-credential error, and with
\* every variable set the format error comes after the three variables were
\* read.  On Local the format error comes before any file operation.  On no
\* host does a put with an unsupported format make a file operation or a
\* request, or change a file or a backend's contents.
C14_ValidationOrder ==
    [][(last'.op = "put" /\ last'.fmt \notin {"text", "json"}) =>
           /\ last'.outcome = "raised"
           /\ (last'.host = "Amazon" /\ AmazonEnvMissing) =>
                 last'.exc = "EnvironmentError"
           /\ (last'.host = "Amazon" /\ ~AmazonEnvMissing) =>
                 (last'.exc = "TypeError" /\ last'.reads = 3)
           /\ last'.host # "Amazon" => last'.exc = "TypeError"
           /\ last'.files = 0 /\ last'.net = 0
           /\ UNCHANGED <<fs, s3, render>>]_vars

\* a put on Amazon with AWS_WATCHDOG_BUCKET unset and format "xml" has failed
\* with the missing-credential error
C14_Witness ==
    /\ last.op = "put" /\ last.host = "Amazon" /\ last.fmt = "xml"
    /\ "AWS_WATCHDOG_BUCKET" \notin env
    /\ last.outcome = "raised" /\ last.exc = "EnvironmentError"

\* what a get of name with format "text" on host returns, the backend answering
ReadBack(name, host) ==
    [value |-> get(name, host, "text", TRUE, "string").value,
     err |-> get(name, host, "text", TRUE, "string").err]

\* C15: a put on the Local backend that returned a non-empty error leaves the
\* content stored under its name as it was, and a get of the name with format
\* "text" returns what it would have returned before the put.
C15_FailedWriteKeepsContent ==
    [][\A k \in Names, host \in Hosts :
           (/\ last'.op = "put" /\ last'.name = k /\ last'.host = host
            /\ IsLocalHost(host) /\ k \in DOMAIN fs
            /\ last'.outcome = "returned" /\ last'.err # NoError) =>
               /\ k \in DOMAIN fs' /\ fs'[k] = fs[k]
               /\ ReadBack(k, host)' = ReadBack(k, host)]_vars

====
